---- MODULE Spec2Model ----
(***************************************************************************)
(* The BMI calculator (src/src/BMICalculator.tsx) and the TDEE calculator  *)
(* (src/unnamed/part_000, the FitnessCalculator component) as one state    *)
(* machine.  The two components are independent (own state, own storage    *)
(* key), so a behaviour follows ONE instance, chosen in Init by calc.      *)
(*                                                                         *)
(* One action is one browser event, taken to completion: the handler, the  *)
(* re-render with its render-phase useMemo recomputation, and the          *)
(* useEffect that saves the state.                                         *)
(*                                                                         *)
(* Numbers.  A JavaScript value of type number | '' | null is a record     *)
(* [k, v]: k = "num" with v the value, "nan", "empty" (the string ''),     *)
(* "null" or "undef".  Raw form fields and the BMI are kept in tenths      *)
(* (v = 705 is 70.5); canonical weightKg is in 1e-7 kg, canonical heightCm *)
(* in 1e-3 cm, the TDEE in whole units.  All arithmetic is exact.          *)
(*                                                                         *)
(* storageWritable says whether localStorage.setItem succeeds; Spec keeps  *)
(* it TRUE.  toggles counts the unit toggles of the behaviour.             *)
(*                                                                         *)
(* Specifications.  Spec: the first visit, every event, texts from         *)
(* SampleTexts.  SpecToggle: a stored metric form over a range of weights  *)
(* and heights, unit toggles only.  SpecFormula: the same range, submit,   *)
(* selects and weight edits.  SpecStored: reload from any slot content.    *)
(* SpecFault: every event, with a setItem that throws.                     *)
(***************************************************************************)
EXTENDS Integers, Sequences, FiniteSets, TLC

VARIABLES calc, units, weightInput, heightCmInput, heightFtInput,
          heightInInput, age, gender, activityLevel,
          bmi, bmiCategoryKey, tdee, showResult, storage, storageWritable,
          toggles

vars == <<calc, units, weightInput, heightCmInput, heightFtInput,
          heightInInput, age, gender, activityLevel,
          bmi, bmiCategoryKey, tdee, showResult, storage, storageWritable,
          toggles>>

---------------------------------------------------------------------------
(* JavaScript values *)

Num(n) == [k |-> "num", v |-> n]
Empty == [k |-> "empty", v |-> 0]
NaN == [k |-> "nan", v |-> 0]
Null == [k |-> "null", v |-> 0]
Undef == [k |-> "undef", v |-> 0]
Infinity == [k |-> "inf", v |-> 0]

IsNum(x) == x.k = "num"

\* One decimal place: raw fields are integers in tenths.
Tenth == 10

\* Conversion factors, as integers: LBS_TO_KG and CM_TO_IN in millionths,
\* KG_TO_LBS in hundred-thousandths, IN_TO_CM in hundredths.
LBS_TO_KG == 453592
KG_TO_LBS == 220462
IN_TO_CM == 254
CM_TO_IN == 393701
FT_TO_IN == 12

\* activityFactors with the factors of active and extra exchanged.
activityFactors_Exchanged ==
  [sedentary |-> 48, light |-> 55, moderate |-> 62, active |-> 76, extra |-> 69]

\* activityFactors, in fortieths (1.2 = 48/40, 1.375 = 55/40, ...).
activityFactors ==
  [sedentary |-> 48, light |-> 55, moderate |-> 62, active |-> 69, extra |-> 76]

Genders == {"male", "female"}
ActivityLevels == {"sedentary", "light", "moderate", "active", "extra"}

---------------------------------------------------------------------------
(* Exact integer arithmetic *)

\* <<q, r>> with a * b = q * c + r and 0 <= r < c, for b >= 0 and c > 0,
\* without forming the product a * b.
RECURSIVE MulDivMod(_, _, _)
MulDivMod(a, b, c) ==
  IF b = 0 THEN <<0, 0>>
  ELSE LET h == MulDivMod(a, b \div 2, c)
           odd == (b % 2) = 1
           d == 2 * h[2] + (IF odd THEN a % c ELSE 0)
       IN <<2 * h[1] + (IF odd THEN a \div c ELSE 0) + (d \div c), d % c>>

\* floor(a * b / c)
MulDiv(a, b, c) == MulDivMod(a, b, c)[1]

\* Math.round of the real number whose doubled floor is twice:
\* floor(x + 1/2) = floor((floor(2x) + 1) / 2).
RoundFromTwice(twice) == (twice + 1) \div 2

\* Math.round(a * b / c)
RoundMulDiv(a, b, c) == RoundFromTwice(MulDiv(2 * a, b, c))

---------------------------------------------------------------------------
(* Text typed into a field: a sequence of characters *)

Digits == {"0", "1", "2", "3", "4", "5", "6", "7", "8", "9"}

DigitVal(c) ==
  CHOOSE d \in 0..9 : <<"0", "1", "2", "3", "4", "5", "6", "7", "8", "9">>[d + 1] = c

\* The texts an event may carry.  Each has at most one digit after the
\* point, so that its value is a whole number of tenths.
SampleTexts ==
  << <<>>,
     <<"0">>,
     <<".">>,
     <<"7", "0">>,
     <<"1", "2", ".", "3", ".", "4">>,
     <<"7", "0", ".">>,
     <<"-", "5">>,
     <<"5", ".", "5">> >>

NumTexts == 5

Texts ==
  {SampleTexts[i] : i \in {j \in 1..Len(SampleTexts) : j <= NumTexts}}

\* /^[0-9]*\.?[0-9]*$/.test(value)
MatchesNumeric(value) ==
  /\ \A i \in 1..Len(value) : value[i] \in Digits \cup {"."}
  /\ Cardinality({i \in 1..Len(value) : value[i] = "."}) <= 1

RECURSIVE DigitsValue(_)
DigitsValue(ds) ==
  IF ds = <<>> THEN 0
  ELSE Tenth * DigitsValue(SubSeq(ds, 1, Len(ds) - 1)) + DigitVal(ds[Len(ds)])

\* Number(value) for a text that matches the pattern: NaN when the text
\* has no digit (a lone "."), else its value, in tenths.
Number(value) ==
  LET dots == {i \in 1..Len(value) : value[i] = "."}
      dot == IF dots = {} THEN Len(value) + 1 ELSE CHOOSE i \in dots : TRUE
      whole == SubSeq(value, 1, dot - 1)
      frac == SubSeq(value, dot + 1, Len(value))
  IN IF value = <<>> THEN Num(0)
     ELSE IF whole = <<>> /\ frac = <<>> THEN NaN
     ELSE Num(Tenth * DigitsValue(whole)
              + (IF frac = <<>> THEN 0 ELSE DigitVal(frac[1])))

---------------------------------------------------------------------------
(* The form state (RawInputState) as a record, and the canonical values *)

Raw ==
  [weight |-> weightInput, heightCm |-> heightCmInput,
   heightFt |-> heightFtInput, heightIn |-> heightInInput,
   units |-> units, age |-> age, gender |-> gender,
   activityLevel |-> activityLevel]

\* weightKg with an empty weight read as 0 (weightInput || 0).
weightKg_EmptyIsZero(r) ==
  IF r.weight = Empty THEN Num(0)
  ELSE IF r.weight = NaN THEN NaN
  ELSE IF r.units = "metric" THEN Num(r.weight.v * 1000000)
  ELSE Num(r.weight.v * LBS_TO_KG)

\* useMemo weightKg, in 1e-7 kg.
weightKg(r) ==
  IF r.weight = Empty THEN Empty
  ELSE IF r.weight = NaN THEN NaN
  ELSE IF r.units = "metric" THEN Num(r.weight.v * 1000000)
  ELSE Num(r.weight.v * LBS_TO_KG)

\* useMemo heightCm, in 1e-3 cm.
heightCm(r) ==
  IF r.units = "metric"
  THEN IF r.heightCm = Empty THEN Empty
       ELSE IF r.heightCm = NaN THEN NaN
       ELSE Num(r.heightCm.v * 100)
  ELSE IF r.heightFt = Empty /\ r.heightIn = Empty THEN Empty
       ELSE LET ft == IF r.heightFt = Empty THEN Num(0) ELSE r.heightFt
                inches == IF r.heightIn = Empty THEN Num(0) ELSE r.heightIn
            IN IF ft = NaN \/ inches = NaN THEN NaN
               ELSE Num((ft.v * FT_TO_IN + inches.v) * IN_TO_CM)

---------------------------------------------------------------------------
(* The result state and the two formulas *)

NoCategory == "null"

Result == [bmi |-> bmi, bmiCategoryKey |-> bmiCategoryKey,
           tdee |-> tdee, showResult |-> showResult]

NoResult == [bmi |-> Null, bmiCategoryKey |-> NoCategory,
             tdee |-> Null, showResult |-> FALSE]

\* floor(2 * 10 * weightKg / (heightCm / 100)^2) for w in 1e-7 kg and
\* h in 1e-3 cm, h > 0: floor(20000 * w / h^2).
TwiceBmiTenths(w, h) ==
  IF h < 20000 THEN MulDiv(w, 20000, h * h)
  ELSE MulDiv(w, 20000, h) \div h

\* calculateBMI without the heightCm === 0 test: the division by zero
\* gives Infinity (NaN for a zero weight), which is shown as obesity.
calculateBMI_NoZeroGuard(r) ==
  LET w == weightKg(r)
      h == heightCm(r)
  IN IF w = Empty \/ h = Empty THEN NoResult
     ELSE IF w = NaN \/ h = NaN \/ (h = Num(0) /\ w = Num(0))
     THEN [bmi |-> NaN, bmiCategoryKey |-> "obesity",
           tdee |-> Null, showResult |-> TRUE]
     ELSE IF h = Num(0)
     THEN [bmi |-> Infinity, bmiCategoryKey |-> "obesity",
           tdee |-> Null, showResult |-> TRUE]
     ELSE LET roundedBmi == RoundFromTwice(TwiceBmiTenths(w.v, h.v))
          IN [bmi |-> Num(roundedBmi),
              bmiCategoryKey |->
                IF roundedBmi < 185 THEN "underweight"
                ELSE IF roundedBmi < 250 THEN "normalWeight"
                ELSE IF roundedBmi < 300 THEN "overweight"
                ELSE "obesity",
              tdee |-> Null, showResult |-> TRUE]

\* calculateBMI with the thresholds compared by <= (a BMI of 18.5 counts
\* as underweight, 25 as normal weight, 30 as overweight).
calculateBMI_ExclusiveBounds(r) ==
  LET w == weightKg(r)
      h == heightCm(r)
  IN IF w = Empty \/ h = Empty \/ h = Num(0) THEN NoResult
     ELSE IF w = NaN \/ h = NaN
     THEN [bmi |-> NaN, bmiCategoryKey |-> "obesity",
           tdee |-> Null, showResult |-> TRUE]
     ELSE LET roundedBmi == RoundFromTwice(TwiceBmiTenths(w.v, h.v))
          IN [bmi |-> Num(roundedBmi),
              bmiCategoryKey |->
                IF roundedBmi <= 185 THEN "underweight"
                ELSE IF roundedBmi <= 250 THEN "normalWeight"
                ELSE IF roundedBmi <= 300 THEN "overweight"
                ELSE "obesity",
              tdee |-> Null, showResult |-> TRUE]

\* calculateBMI of BMICalculator: the result state it sets.
calculateBMI(r) ==
  LET w == weightKg(r)
      h == heightCm(r)
  IN IF w = Empty \/ h = Empty \/ h = Num(0) THEN NoResult
     ELSE IF w = NaN \/ h = NaN
     THEN [bmi |-> NaN, bmiCategoryKey |-> "obesity",
           tdee |-> Null, showResult |-> TRUE]
     ELSE LET roundedBmi == RoundFromTwice(TwiceBmiTenths(w.v, h.v))
          IN [bmi |-> Num(roundedBmi),
              bmiCategoryKey |->
                IF roundedBmi < 185 THEN "underweight"
                ELSE IF roundedBmi < 250 THEN "normalWeight"
                ELSE IF roundedBmi < 300 THEN "overweight"
                ELSE "obesity",
              tdee |-> Null, showResult |-> TRUE]

\* floor(2 * bmr * factor) for w in 1e-7 kg, h in 1e-3 cm, a in tenths of
\* a year, c = 5 or -161 and f the factor in fortieths.  With
\* bmr = w/1e6 + h/160 + (2c - a)/2 = whole + part/1e6 (0 <= part < 1e6),
\* 2 * bmr * f/40 = (whole * f)/20 + part * f / 2e7.
TwiceTdee(w, h, a, c, f) ==
  LET fracs == (w % 1000000) + 6250 * (h % 160) + 500000 * ((2 * c - a) % 2)
      whole == (w \div 1000000) + (h \div 160) + ((2 * c - a) \div 2)
                 + (fracs \div 1000000)
      part == fracs % 1000000
      wf == whole * f
  IN (wf \div 20) + (((wf % 20) * 1000000 + part * f) \div 20000000)

\* calculateTDEE of FitnessCalculator: the result state it sets.
calculateTDEE(r) ==
  LET w == weightKg(r)
      h == heightCm(r)
  IN IF r.age = Empty \/ w = Empty \/ h = Empty THEN NoResult
     ELSE IF r.age = NaN \/ w = NaN \/ h = NaN
     THEN [NoResult EXCEPT !.tdee = NaN, !.showResult = TRUE]
     ELSE [NoResult EXCEPT
             !.tdee = Num(RoundFromTwice(
                        TwiceTdee(w.v, h.v, r.age.v,
                                  IF r.gender = "male" THEN 5 ELSE -161,
                                  activityFactors[r.activityLevel]))),
             !.showResult = TRUE]

---------------------------------------------------------------------------
(* Persistence: the localStorage slot of the instance *)

UndefStr == "<undefined>"

\* JSON.stringify of a number | '' field: NaN is written as null.
JsonNumber(x) == IF x = NaN THEN Null ELSE x

\* JSON.stringify(currentState): the record of the keys the instance
\* writes.  BMICalculator writes the cm field under heightCm,
\* FitnessCalculator under height; a key not written is undefined.
Stringify(r) ==
  IF calc = "bmi"
  THEN [weight |-> JsonNumber(r.weight), heightCm |-> JsonNumber(r.heightCm),
        height |-> Undef,
        heightFt |-> JsonNumber(r.heightFt), heightIn |-> JsonNumber(r.heightIn),
        units |-> r.units, age |-> Undef, gender |-> UndefStr,
        activityLevel |-> UndefStr]
  ELSE [weight |-> JsonNumber(r.weight), heightCm |-> Undef,
        height |-> JsonNumber(r.heightCm),
        heightFt |-> JsonNumber(r.heightFt), heightIn |-> JsonNumber(r.heightIn),
        units |-> r.units, age |-> JsonNumber(r.age), gender |-> r.gender,
        activityLevel |-> r.activityLevel]

\* The state both load functions return for a missing key, a value that
\* is no object, or an exception.
DefaultState ==
  [weight |-> Empty, heightCm |-> Empty, heightFt |-> Empty,
   heightIn |-> Empty, units |-> "metric", age |-> Empty,
   gender |-> "male", activityLevel |-> "sedentary"]

NoRecord == Stringify(DefaultState)

\* x || d: a stored 0 or '' also gives the default.
Nullish_Falsy(x, d) ==
  IF x = Null \/ x = Undef \/ x = Num(0) \/ x = Empty THEN d ELSE x

\* x ?? d
Nullish(x, d) == IF x = Null \/ x = Undef THEN d ELSE x

NullishStr(x, d) == IF x = UndefStr THEN d ELSE x

\* loadBMIState keeping any stored unit (parsedState.units ?? 'metric').
loadBMIState_KeepUnits(st) ==
  IF st.kind = "object"
  THEN [DefaultState EXCEPT
          !.weight = Nullish(st.rec.weight, Empty),
          !.heightCm = Nullish(st.rec.heightCm, Empty),
          !.heightFt = Nullish(st.rec.heightFt, Empty),
          !.heightIn = Nullish(st.rec.heightIn, Empty),
          !.units = NullishStr(st.rec.units, "metric")]
  ELSE DefaultState

\* loadBMIState
loadBMIState(st) ==
  IF st.kind = "object"
  THEN [DefaultState EXCEPT
          !.weight = Nullish(st.rec.weight, Empty),
          !.heightCm = Nullish(st.rec.heightCm, Empty),
          !.heightFt = Nullish(st.rec.heightFt, Empty),
          !.heightIn = Nullish(st.rec.heightIn, Empty),
          !.units = IF st.rec.units = "imperial" THEN "imperial" ELSE "metric"]
  ELSE DefaultState

\* loadState of FitnessCalculator
loadState(st) ==
  IF st.kind = "object"
  THEN [age |-> Nullish(st.rec.age, Empty),
        gender |-> NullishStr(st.rec.gender, "male"),
        weight |-> Nullish(st.rec.weight, Empty),
        heightCm |-> Nullish(st.rec.height, Empty),
        activityLevel |-> NullishStr(st.rec.activityLevel, "sedentary"),
        units |-> IF st.rec.units = "imperial" THEN "imperial" ELSE "metric",
        heightIn |-> Nullish(st.rec.heightIn, Empty),
        heightFt |-> Nullish(st.rec.heightFt, Empty)]
  ELSE DefaultState

Load(st) == IF calc = "bmi" THEN loadBMIState(st) ELSE loadState(st)

\* saveBMIState / saveState: the slot after the call.  A setItem that
\* throws is caught and leaves the slot as it was.
saveState(r, st) ==
  IF storageWritable THEN [kind |-> "object", rec |-> Stringify(r)] ELSE st

---------------------------------------------------------------------------
(* Handlers: the form state each one leaves *)

\* handleInputChange without the pattern test: Number of a text that is
\* no number is NaN.
handleInputChange_NoPattern(value, prev) ==
  IF value = <<>> THEN Empty
  ELSE IF MatchesNumeric(value) THEN Number(value)
  ELSE NaN

\* handleInputChange(setter)(e): the value of the field after the event,
\* prev being its value before.
handleInputChange(value, prev) ==
  IF value = <<>> \/ MatchesNumeric(value)
  THEN (IF value = <<>> THEN Empty ELSE Number(value))
  ELSE prev

\* x > 0 in JavaScript, for x a number or NaN
Positive(x) == IsNum(x) /\ x.v > 0

\* toggleUnits with the centimetres cut off (Math.floor(totalCm)) instead
\* of rounded.
toggleUnits_FloorCm(r) ==
  IF r.units = "metric"
  THEN LET w == IF r.weight = Empty \/ r.weight = NaN THEN r.weight
                ELSE Num(RoundMulDiv(r.weight.v, KG_TO_LBS, 100000))
           fi == MulDivMod(r.heightCm.v, CM_TO_IN, FT_TO_IN * 10000000)
           feet == IF r.heightCm = NaN THEN NaN ELSE Num(Tenth * fi[1])
           inches == IF r.heightCm = NaN THEN NaN
                     ELSE Num(RoundMulDiv(fi[2], 1, 1000000))
       IN IF r.heightCm = Empty
          THEN [r EXCEPT !.units = "imperial", !.weight = w]
          ELSE [r EXCEPT !.units = "imperial", !.weight = w,
                         !.heightFt = feet, !.heightIn = inches,
                         !.heightCm = Empty]
  ELSE LET w == IF r.weight = Empty \/ r.weight = NaN THEN r.weight
                ELSE Num(RoundMulDiv(r.weight.v, LBS_TO_KG, 1000000))
           ft == IF r.heightFt = Empty THEN Num(0) ELSE r.heightFt
           inches == IF r.heightIn = Empty THEN Num(0) ELSE r.heightIn
           totalCm == IF ft = NaN \/ inches = NaN THEN NaN
                      ELSE Num(Tenth * MulDiv(ft.v * FT_TO_IN + inches.v,
                                              IN_TO_CM, 1000))
       IN IF Positive(ft) \/ Positive(inches)
          THEN [r EXCEPT !.units = "metric", !.weight = w,
                         !.heightCm = totalCm,
                         !.heightFt = Empty, !.heightIn = Empty]
          ELSE [r EXCEPT !.units = "metric", !.weight = w]

\* toggleUnits
toggleUnits(r) ==
  IF r.units = "metric"
  THEN \* Metric to Imperial
       LET w == IF r.weight = Empty \/ r.weight = NaN THEN r.weight
                ELSE Num(RoundMulDiv(r.weight.v, KG_TO_LBS, 100000))
           fi == MulDivMod(r.heightCm.v, CM_TO_IN, FT_TO_IN * 10000000)
           feet == IF r.heightCm = NaN THEN NaN ELSE Num(Tenth * fi[1])
           inches == IF r.heightCm = NaN THEN NaN
                     ELSE Num(RoundMulDiv(fi[2], 1, 1000000))
       IN IF r.heightCm = Empty
          THEN [r EXCEPT !.units = "imperial", !.weight = w]
          ELSE [r EXCEPT !.units = "imperial", !.weight = w,
                         !.heightFt = feet, !.heightIn = inches,
                         !.heightCm = Empty]
  ELSE \* Imperial to Metric
       LET w == IF r.weight = Empty \/ r.weight = NaN THEN r.weight
                ELSE Num(RoundMulDiv(r.weight.v, LBS_TO_KG, 1000000))
           ft == IF r.heightFt = Empty THEN Num(0) ELSE r.heightFt
           inches == IF r.heightIn = Empty THEN Num(0) ELSE r.heightIn
           totalCm == IF ft = NaN \/ inches = NaN THEN NaN
                      ELSE Num(Tenth * RoundMulDiv(ft.v * FT_TO_IN + inches.v,
                                                   IN_TO_CM, 1000))
       IN IF Positive(ft) \/ Positive(inches)
          THEN [r EXCEPT !.units = "metric", !.weight = w,
                         !.heightCm = totalCm,
                         !.heightFt = Empty, !.heightIn = Empty]
          ELSE [r EXCEPT !.units = "metric", !.weight = w]

---------------------------------------------------------------------------
(* Rendering: the render-phase recomputation and the save effect *)

\* The dependency list of the recomputing useMemo.
MemoDeps(r) ==
  IF calc = "bmi" THEN <<weightKg(r), heightCm(r)>>
  ELSE <<r.age, r.gender, weightKg(r), heightCm(r), r.activityLevel>>

\* The useMemo body with a truthiness test (if (weightKg && heightCm)):
\* a weight of 0 counts as missing.
RecomputeBMI_Truthy(r) ==
  IF weightKg(r) # Empty /\ weightKg(r) # Num(0) /\ weightKg(r) # NaN
     /\ heightCm(r) # Empty /\ heightCm(r) # Num(0) /\ heightCm(r) # NaN
  THEN calculateBMI(r)
  ELSE NoResult

\* The body of the recomputing useMemo of BMICalculator.
RecomputeBMI(r) ==
  IF weightKg(r) # Empty /\ heightCm(r) # Empty /\ heightCm(r) # Num(0)
  THEN calculateBMI(r)
  ELSE NoResult

\* The body of the recomputing useMemo of FitnessCalculator.
RecomputeTDEE(r) ==
  IF r.age # Empty /\ weightKg(r) # Empty /\ heightCm(r) # Empty
  THEN calculateTDEE(r)
  ELSE NoResult

Recompute(r) == IF calc = "bmi" THEN RecomputeBMI(r) ELSE RecomputeTDEE(r)

\* The manual path: onSubmit calls the calculate function of the instance.
Calculate(r) == IF calc = "bmi" THEN calculateBMI(r) ELSE calculateTDEE(r)

SetRaw(r) ==
  /\ weightInput' = r.weight
  /\ heightCmInput' = r.heightCm
  /\ heightFtInput' = r.heightFt
  /\ heightInInput' = r.heightIn
  /\ units' = r.units
  /\ age' = r.age
  /\ gender' = r.gender
  /\ activityLevel' = r.activityLevel

SetResult(res) ==
  /\ bmi' = res.bmi
  /\ bmiCategoryKey' = res.bmiCategoryKey
  /\ tdee' = res.tdee
  /\ showResult' = res.showResult

\* The re-render when the save is not wrapped in try/catch: a setItem that
\* throws inside the effect makes React unmount the component, and the
\* form and its result are gone.
Rerender_SaveThrows(r) ==
  /\ SetRaw(IF r # Raw /\ ~storageWritable THEN DefaultState ELSE r)
  /\ SetResult(IF r # Raw /\ ~storageWritable THEN NoResult
               ELSE IF MemoDeps(r) # MemoDeps(Raw) THEN Recompute(r)
               ELSE [Result EXCEPT !.showResult = FALSE])
  /\ storage' = IF r # Raw THEN saveState(r, storage) ELSE storage
  /\ UNCHANGED <<calc, storageWritable>>

\* The re-render with a recomputation that reads the values of the
\* previous render (a stale closure).
Rerender_StaleClosure(r) ==
  /\ SetRaw(r)
  /\ SetResult(IF MemoDeps(r) # MemoDeps(Raw) THEN Recompute(Raw)
               ELSE [Result EXCEPT !.showResult = FALSE])
  /\ storage' = IF r # Raw THEN saveState(r, storage) ELSE storage
  /\ UNCHANGED <<calc, storageWritable>>

\* The re-render that follows a handler which left the form state r and
\* called setShowResult(false): the useMemo recomputes when one of its
\* dependencies changed (its setState calls win over the handler's), and
\* the useEffect saves when a form field changed.
Rerender(r) ==
  /\ SetRaw(r)
  /\ SetResult(IF MemoDeps(r) # MemoDeps(Raw) THEN Recompute(r)
               ELSE [Result EXCEPT !.showResult = FALSE])
  /\ storage' = IF r # Raw THEN saveState(r, storage) ELSE storage
  /\ UNCHANGED <<calc, storageWritable>>

---------------------------------------------------------------------------
(* Events *)

\* Unit toggles followed in one behaviour (every toggle followed by an
\* edit of the inches can grow the height without limit).
MaxToggles == 2

EditWeight(value) ==
  /\ Rerender([Raw EXCEPT !.weight = handleInputChange(value, weightInput)])
  /\ UNCHANGED toggles

\* The cm field is rendered in metric units only.
EditHeightCm(value) ==
  /\ units = "metric"
  /\ Rerender([Raw EXCEPT !.heightCm = handleInputChange(value, heightCmInput)])
  /\ UNCHANGED toggles

\* The ft and in fields are rendered in imperial units only.
EditHeightFt(value) ==
  /\ units = "imperial"
  /\ Rerender([Raw EXCEPT !.heightFt = handleInputChange(value, heightFtInput)])
  /\ UNCHANGED toggles

EditHeightIn(value) ==
  /\ units = "imperial"
  /\ Rerender([Raw EXCEPT !.heightIn = handleInputChange(value, heightInInput)])
  /\ UNCHANGED toggles

EditAge(value) ==
  /\ calc = "tdee"
  /\ Rerender([Raw EXCEPT !.age = handleInputChange(value, age)])
  /\ UNCHANGED toggles

\* handleSelectChange(setGender)
SelectGender(g) ==
  /\ calc = "tdee"
  /\ Rerender([Raw EXCEPT !.gender = g])
  /\ UNCHANGED toggles

\* handleSelectChange(setActivityLevel)
SelectActivity(a) ==
  /\ calc = "tdee"
  /\ Rerender([Raw EXCEPT !.activityLevel = a])
  /\ UNCHANGED toggles

ToggleUnits ==
  /\ toggles < MaxToggles
  /\ Rerender(toggleUnits(Raw))
  /\ toggles' = toggles + 1

\* onSubmit: the calculate function runs on the values of this render.
Submit ==
  /\ SetResult(Calculate(Raw))
  /\ UNCHANGED <<calc, units, weightInput, heightCmInput, heightFtInput,
                 heightInInput, age, gender, activityLevel, storage,
                 storageWritable, toggles>>

\* Mounting the component on the slot st: the state is loaded, the first
\* render recomputes the result, the effect saves the loaded state.
MountOn(st) ==
  /\ SetRaw(Load(st))
  /\ SetResult(Recompute(Load(st)))
  /\ storage' = saveState(Load(st), st)

\* The page is reloaded.
Remount ==
  /\ MountOn(storage)
  /\ UNCHANGED <<calc, storageWritable, toggles>>

\* The first visit: nothing is stored under the key.
Init ==
  /\ calc \in {"bmi", "tdee"}
  /\ storageWritable = TRUE
  /\ toggles = 0
  /\ weightInput = Empty
  /\ heightCmInput = Empty
  /\ heightFtInput = Empty
  /\ heightInInput = Empty
  /\ units = "metric"
  /\ age = Empty
  /\ gender = "male"
  /\ activityLevel = "sedentary"
  /\ bmi = Null
  /\ bmiCategoryKey = NoCategory
  /\ tdee = Null
  /\ showResult = FALSE
  /\ storage = [kind |-> "object", rec |-> NoRecord]

Next ==
  \/ \E value \in Texts : EditWeight(value)
  \/ \E value \in Texts : EditHeightCm(value)
  \/ \E value \in Texts : EditHeightFt(value)
  \/ \E value \in Texts : EditHeightIn(value)
  \/ \E value \in Texts : EditAge(value)
  \/ \E g \in Genders : SelectGender(g)
  \/ \E a \in ActivityLevels : SelectActivity(a)
  \/ ToggleUnits
  \/ Submit
  \/ Remount

Spec == Init /\ [][Next]_vars

---------------------------------------------------------------------------
(* The conversions on a range of values.  The form was filled in an       *)
(* earlier session, the component is mounted on the stored record, and    *)
(* the browser refuses every write from then on (setItem throws), so the  *)
(* slot keeps the record the behaviour started from.  The only event is   *)
(* the unit toggle.                                                       *)

\* The largest weight and height drawn, in tenths (200.0 kg, 200.0 cm).
MaxTenths == 2000

\* The weights paired with each height of the range and the heights
\* paired with each weight of the range, in tenths.
PairedWeights == {1, 700}
PairedHeights == {700, 1755}

\* The form states drawn: metric, one of weight and height ranging over
\* 0 .. MaxTenths, the other taken from the paired values.
ToggleInputs ==
  {[DefaultState EXCEPT !.weight = Num(p[1]), !.heightCm = Num(p[2])] :
     p \in ((0..MaxTenths) \X PairedHeights) \cup (PairedWeights \X (0..MaxTenths))}

\* The state of a component mounted on the slot st: the loaded form
\* state r, the result res of the first render, the slot after the save
\* of the mount effect.
MountedOn(st) ==
  \E r \in {Load(st)} : \E res \in {Recompute(r)} :
    /\ weightInput = r.weight
    /\ heightCmInput = r.heightCm
    /\ heightFtInput = r.heightFt
    /\ heightInInput = r.heightIn
    /\ units = r.units
    /\ age = r.age
    /\ gender = r.gender
    /\ activityLevel = r.activityLevel
    /\ bmi = res.bmi
    /\ bmiCategoryKey = res.bmiCategoryKey
    /\ tdee = res.tdee
    /\ showResult = res.showResult
    /\ storage = saveState(r, st)

InitToggle ==
  /\ calc \in {"bmi", "tdee"}
  /\ storageWritable = FALSE
  /\ toggles = 0
  /\ \E r \in ToggleInputs : MountedOn([kind |-> "object", rec |-> Stringify(r)])

NextToggle == ToggleUnits

SpecToggle == InitToggle /\ [][NextToggle]_vars

---------------------------------------------------------------------------
(* The two formulas on a range of values.  The component is mounted on a  *)
(* record stored by an earlier session; the events are the submit, the    *)
(* two selects and the edit of the weight.                                *)

\* The ages paired with the weights and heights of the TDEE instance, in
\* tenths of a year.
PairedAges == {255, 300}

\* The weights of the TDEE instance paired with each height of the range.
PairedTdeeWeights == {700, 800}

\* The values of the range that are whole or half units.
Halves == {n \in 0..MaxTenths : n % 5 = 0}

\* The form states of the TDEE instance drawn: metric, weight and height
\* whole or half units (one of them ranging over Halves), an age.
TdeeInputs ==
  {[DefaultState EXCEPT !.weight = Num(p[1]), !.heightCm = Num(p[2]),
                        !.age = Num(a)] :
     p \in (Halves \X PairedHeights) \cup (PairedTdeeWeights \X Halves),
     a \in PairedAges}

InitFormula ==
  /\ calc \in {"bmi", "tdee"}
  /\ storageWritable = TRUE
  /\ toggles = 0
  /\ \E r \in (IF calc = "bmi" THEN ToggleInputs ELSE TdeeInputs) :
       MountedOn([kind |-> "object", rec |-> Stringify(r)])

NextFormula ==
  \/ Submit
  \/ \E g \in Genders : SelectGender(g)
  \/ \E a \in ActivityLevels : SelectActivity(a)
  \/ \E value \in Texts : EditWeight(value)

SpecFormula == InitFormula /\ [][NextFormula]_vars

---------------------------------------------------------------------------
(* Restoring from a slot the component did not write itself (another tab, *)
(* an older version, an edit of localStorage): the page is open on the    *)
(* default form while the slot holds any content, and setItem succeeds or *)
(* throws; the events are the reload, the unit toggle and the submit.     *)

\* The content of the slot when it holds no JSON object: no item under
\* the key, a text JSON.parse rejects, a JSON value that is no object
\* (a number, a string, null), or a getItem that throws.
NoObjectKinds == {"missing", "unparseable", "nonobject", "readerror"}

\* The JSON objects drawn, by the keys the instance reads: a key is
\* missing (undefined), null, '' or a number; the unit is missing, one of
\* the two unit systems, or another string.
StoredRecords ==
  IF calc = "bmi"
  THEN [weight : {Undef, Null, Empty, Num(700)},
        heightCm : {Undef, Num(0), Num(1750)},
        height : {Undef},
        heightFt : {Undef, Num(0), Num(50)},
        heightIn : {Undef, Num(0), Num(70)},
        units : {UndefStr, "metric", "imperial", "Imperial"},
        age : {Undef}, gender : {UndefStr}, activityLevel : {UndefStr}]
  ELSE [weight : {Undef, Null, Empty, Num(700)},
        heightCm : {Undef},
        height : {Undef, Num(0), Num(1750)},
        heightFt : {Undef, Num(0), Num(50)},
        heightIn : {Undef, Num(0), Num(70)},
        units : {UndefStr, "metric", "imperial", "Imperial"},
        age : {Undef, Num(300)}, gender : {UndefStr, "female"},
        activityLevel : {UndefStr, "moderate"}]

Slots ==
  {[kind |-> k, rec |-> NoRecord] : k \in NoObjectKinds}
    \cup {[kind |-> "object", rec |-> rec] : rec \in StoredRecords}

InitStored ==
  /\ calc \in {"bmi", "tdee"}
  /\ storageWritable \in BOOLEAN
  /\ toggles = 0
  /\ weightInput = Empty
  /\ heightCmInput = Empty
  /\ heightFtInput = Empty
  /\ heightInInput = Empty
  /\ units = "metric"
  /\ age = Empty
  /\ gender = "male"
  /\ activityLevel = "sedentary"
  /\ bmi = Null
  /\ bmiCategoryKey = NoCategory
  /\ tdee = Null
  /\ showResult = FALSE
  /\ storage \in Slots

NextStored ==
  \/ Remount
  \/ ToggleUnits
  \/ Submit

SpecStored == InitStored /\ [][NextStored]_vars

---------------------------------------------------------------------------
(* Failing writes: the first visit with a localStorage whose setItem      *)
(* throws on every call (storage full or disabled); the events are those  *)
(* of Spec, the edits with three of the texts.                            *)

\* The texts of the edits: the empty text, "70" and the rejected
\* "12.3.4".
FaultTexts == {SampleTexts[1], SampleTexts[4], SampleTexts[5]}

InitFault ==
  /\ calc \in {"bmi", "tdee"}
  /\ storageWritable = FALSE
  /\ toggles = 0
  /\ weightInput = Empty
  /\ heightCmInput = Empty
  /\ heightFtInput = Empty
  /\ heightInInput = Empty
  /\ units = "metric"
  /\ age = Empty
  /\ gender = "male"
  /\ activityLevel = "sedentary"
  /\ bmi = Null
  /\ bmiCategoryKey = NoCategory
  /\ tdee = Null
  /\ showResult = FALSE
  /\ storage = [kind |-> "object", rec |-> NoRecord]

NextFault ==
  \/ \E value \in FaultTexts : EditWeight(value)
  \/ \E value \in FaultTexts : EditHeightCm(value)
  \/ \E value \in FaultTexts : EditHeightFt(value)
  \/ \E value \in FaultTexts : EditHeightIn(value)
  \/ \E value \in FaultTexts : EditAge(value)
  \/ \E g \in Genders : SelectGender(g)
  \/ \E a \in ActivityLevels : SelectActivity(a)
  \/ ToggleUnits
  \/ Submit
  \/ Remount

SpecFault == InitFault /\ [][NextFault]_vars

---------------------------------------------------------------------------
(* Properties *)

\* The condition under which each component renders its result.
Displayed ==
  IF calc = "bmi"
  THEN showResult /\ bmi # Null /\ bmiCategoryKey # NoCategory
  ELSE showResult /\ tdee # Null

\* A required input is absent: the weight, the height of the current unit
\* system (both of feet and inches, in imperial units) or, for the TDEE,
\* the age.
InputAbsent ==
  \/ weightInput = Empty
  \/ units = "metric" /\ heightCmInput = Empty
  \/ units = "imperial" /\ heightFtInput = Empty /\ heightInInput = Empty
  \/ calc = "tdee" /\ age = Empty

\* The height resolves to zero.
HeightIsZero == heightCm(Raw) = Num(0)

\* C1: whenever a required input is absent, no result is held or shown:
\* the BMI, its category and the TDEE are null and showResult is false.
C1_AbsentInputNoResult == InputAbsent => (Result = NoResult /\ ~Displayed)

\* After a unit toggle, a weight is present and the height is absent.
C1_Witness ==
  /\ calc = "bmi" /\ toggles > 0 /\ units = "imperial"
  /\ weightInput = Num(1543) /\ heightCm(Raw) = Empty
  /\ Result = NoResult

\* A raw numeric field is absent or a finite number >= 0.
FiniteOrAbsent(x) == x = Empty \/ (IsNum(x) /\ x.v >= 0)

RawFinite ==
  /\ FiniteOrAbsent(weightInput)
  /\ FiniteOrAbsent(heightCmInput)
  /\ FiniteOrAbsent(heightFtInput)
  /\ FiniteOrAbsent(heightInInput)
  /\ FiniteOrAbsent(age)

\* C2: in every state (each is the end of a completed event) the result
\* is displayed exactly when the required inputs are present and the
\* height is not zero.  Stated for finite field values, so that a
\* violation does not rest on a stored NaN (C3).
C2_ResultMatchesInputs ==
  RawFinite => (Displayed <=> (~InputAbsent /\ ~HeightIsZero))

\* C3: every raw numeric field is absent or a finite non-negative number.
C3_RawFieldsFinite == RawFinite

AtMostOneHeight ==
  ~(heightCmInput # Empty /\ (heightFtInput # Empty \/ heightInInput # Empty))

\* C4: every step leaves at most one height representation non-absent,
\* and a step that changes the unit system leaves the height fields of
\* the system it left absent.  Stated for finite field values (see C2).
C4_HeightExclusive ==
  [][RawFinite' =>
       /\ AtMostOneHeight'
       /\ (units = "metric" /\ units' = "imperial") => heightCmInput' = Empty
       /\ (units = "imperial" /\ units' = "metric")
            => (heightFtInput' = Empty /\ heightInInput' = Empty)]_vars

\* C5: in the TDEE instance a height that resolves to zero gives no
\* result.  Stated for finite field values (see C2).
C5_TdeeZeroHeightNoResult ==
  (RawFinite /\ calc = "tdee" /\ HeightIsZero)
    => (Result = NoResult /\ ~Displayed)

\* C6: in the BMI instance, when the height resolves to zero the result
\* held is absent, and both the reactive recomputation and the manual
\* submit give the absent result.
C6_BmiZeroHeightNoResult ==
  (calc = "bmi" /\ HeightIsZero)
    => /\ Result = NoResult
       /\ RecomputeBMI(Raw) = NoResult
       /\ calculateBMI(Raw) = NoResult

\* A weight of 70 kg with a height of 0 cm.
C6_Witness ==
  /\ calc = "bmi" /\ units = "metric"
  /\ weightInput = Num(700) /\ heightCmInput = Num(0)
  /\ Result = NoResult

\* An edit of some numeric field with the text value.
EditSomeField(value) ==
  \/ EditWeight(value)
  \/ EditHeightCm(value)
  \/ EditHeightFt(value)
  \/ EditHeightIn(value)
  \/ EditAge(value)

\* C7: an edit whose text is not empty and does not match the numeric
\* pattern leaves every raw field and the unit system unchanged: a step
\* that changes one of them is no such edit.
C7_MalformedRejected ==
  [][\/ Raw' = Raw
     \/ \A value \in Texts :
          ~(value # <<>> /\ ~MatchesNumeric(value) /\ EditSomeField(value))]_vars

\* A complete form whose computed result is held but hidden: the state a
\* rejected edit leaves.
C7_Witness ==
  /\ calc = "bmi" /\ units = "metric"
  /\ weightInput = Num(700) /\ heightCmInput = Num(700)
  /\ bmi = Num(1429) /\ ~showResult

\* C8: saving the form state and loading it back gives the same state.
C8_RoundTrip == Load([kind |-> "object", rec |-> Stringify(Raw)]) = Raw

\* C9: while writes succeed, the stored record is the current form state.
C9_StoredIsCurrent == storageWritable => Load(storage) = Raw

\* C10: a submit leaves the result the reactive recomputation gives for
\* the same inputs.
C10_SubmitIsReactive == [][Submit => Result' = Recompute(Raw)]_vars

\* A complete form with its result displayed.
C10_Witness ==
  /\ calc = "bmi" /\ units = "metric"
  /\ weightInput = Num(700) /\ heightCmInput = Num(700)
  /\ showResult /\ bmi = Num(1429) /\ bmiCategoryKey = "obesity"

\* The form state the behaviour of SpecToggle started from.
Original == Load(storage)

\* The canonical values of r are numbers within 0.1 kg and 1 cm of those
\* of o.
WithinTolerance(r, o) ==
  /\ IsNum(weightKg(r)) /\ IsNum(heightCm(r))
  /\ weightKg(r).v - weightKg(o).v \in -1000000..1000000
  /\ heightCm(r).v - heightCm(o).v \in -1000..1000

\* Two toggles from a metric form with weight and height present.
ToggledTwice ==
  /\ toggles = 2 /\ units = "metric" /\ Original.units = "metric"
  /\ IsNum(Original.weight) /\ IsNum(Original.heightCm)

\* C11 as stated: after two toggles from a metric form with weight and
\* height present, canonical weightKg is within 0.1 kg and canonical
\* heightCm within 1 cm of the original.
C11_DoubleToggle == ToggledTwice => WithinTolerance(Raw, Original)

\* The imperial form of r is more than 0 ft 0.0 in.
ImperialHeightPositive(r) ==
  Positive(toggleUnits(r).heightFt) \/ Positive(toggleUnits(r).heightIn)

\* C11, amended: the same, for an original height whose imperial form is
\* more than 0 ft 0.0 in; a height that converts to 0 ft 0.0 in (below
\* 0.13 cm) comes back absent.
C11_DoubleTogglePositive ==
  ToggledTwice =>
    IF ImperialHeightPositive(Original)
    THEN WithinTolerance(Raw, Original)
    ELSE heightCm(Raw) = Empty

\* 170.1 cm came back as 170 cm after two toggles, 70 kg as 70 kg.
C11_Witness ==
  /\ ToggledTwice
  /\ Original.heightCm = Num(1701) /\ heightCmInput = Num(1700)
  /\ Original.weight = Num(700) /\ weightInput = Num(700)

\* C12: in the BMI instance, for a metric form with weight W and non-zero
\* height H (tenths of kg and cm), the BMI held is the number b of tenths
\* nearest to 10 * (W/10) / (H/1000)^2 = 1000000 * W / H^2 (a tie goes
\* up), and the category follows the thresholds on b: below 18.5
\* underweight, from 18.5 below 25 normalWeight, from 25 below 30
\* overweight, from 30 obesity.
C12_BmiFormula ==
  (/\ calc = "bmi" /\ units = "metric"
   /\ IsNum(weightInput) /\ IsNum(heightCmInput) /\ heightCmInput.v > 0)
    => /\ IsNum(bmi)
       /\ LET H2 == heightCmInput.v * heightCmInput.v
              D == 1000000 * weightInput.v - bmi.v * H2
          IN -H2 <= 2 * D /\ 2 * D < H2
       /\ bmiCategoryKey =
            IF bmi.v < 185 THEN "underweight"
            ELSE IF bmi.v < 250 THEN "normalWeight"
            ELSE IF bmi.v < 300 THEN "overweight"
            ELSE "obesity"

\* 70 kg with 175 cm shows 22.9, normalWeight.
C12_Witness ==
  /\ calc = "bmi" /\ units = "metric"
  /\ weightInput = Num(700) /\ heightCmInput = Num(1750)
  /\ showResult /\ bmi = Num(229) /\ bmiCategoryKey = "normalWeight"

\* C13: in the TDEE instance, for a metric form with age A, weight W and
\* height H (tenths), the TDEE held is the whole number t nearest to
\* BMR * factor (a tie goes up), with BMR = 10 * W/10 + 6.25 * H/10
\* - 5 * A/10 + 5 for male, - 161 for female, that is
\* BMR = (8 * W + 5 * H - 4 * A + 8 * c) / 8, and the factor 1.2, 1.375,
\* 1.55, 1.725, 1.9 (here in thousandths).
C13_TdeeFormula ==
  (/\ calc = "tdee" /\ units = "metric"
   /\ IsNum(age) /\ IsNum(weightInput) /\ IsNum(heightCmInput))
    => /\ IsNum(tdee)
       /\ LET c == IF gender = "male" THEN 5 ELSE -161
              factor == [sedentary |-> 1200, light |-> 1375, moderate |-> 1550,
                         active |-> 1725, extra |-> 1900][activityLevel]
              N == (8 * weightInput.v + 5 * heightCmInput.v - 4 * age.v + 8 * c)
                     * factor
          IN (2 * tdee.v - 1) * 4000 <= N /\ N < (2 * tdee.v + 1) * 4000

\* Age 30, male, 80 kg, 180 cm, moderate shows 2759.
C13_Witness ==
  /\ calc = "tdee" /\ units = "metric"
  /\ age = Num(300) /\ gender = "male" /\ activityLevel = "moderate"
  /\ weightInput = Num(800) /\ heightCmInput = Num(1800)
  /\ showResult /\ tdee = Num(2759)

\* The field value v loaded for the stored value x: the default '' when
\* the key is missing or null, else the stored value.
NumberLoaded(x, v) == v = (IF x = Undef \/ x = Null THEN Empty ELSE x)

\* The form state r is the one load is to return for the slot st.
LoadedFrom(st, r) ==
  IF st.kind # "object"
  THEN /\ r.weight = Empty /\ r.heightCm = Empty /\ r.heightFt = Empty
       /\ r.heightIn = Empty /\ r.age = Empty
       /\ r.units = "metric" /\ r.gender = "male"
       /\ r.activityLevel = "sedentary"
  ELSE /\ NumberLoaded(st.rec.weight, r.weight)
       /\ NumberLoaded(IF calc = "bmi" THEN st.rec.heightCm ELSE st.rec.height,
                       r.heightCm)
       /\ NumberLoaded(st.rec.heightFt, r.heightFt)
       /\ NumberLoaded(st.rec.heightIn, r.heightIn)
       /\ st.rec.units \in {"metric", "imperial"} => r.units = st.rec.units
       /\ st.rec.units = UndefStr => r.units = "metric"
       /\ r.units \in {"metric", "imperial"}
       /\ IF calc = "bmi"
          THEN r.age = Empty /\ r.gender = "male"
               /\ r.activityLevel = "sedentary"
          ELSE /\ NumberLoaded(st.rec.age, r.age)
               /\ r.gender = (IF st.rec.gender = UndefStr THEN "male"
                              ELSE st.rec.gender)
               /\ r.activityLevel =
                    (IF st.rec.activityLevel = UndefStr THEN "sedentary"
                     ELSE st.rec.activityLevel)

\* C14: a reload never fails and leaves the form state load returns for
\* the slot: the defaults for a missing key, unparseable content, a value
\* that is no object or a read error; for an object, field by field the
\* default when the key is missing and else the stored value.
C14_LoadDefaults == [][Remount => LoadedFrom(storage, Raw')]_vars

\* Restored from a record without weight, unit and gender, and with a
\* height, inches, an age and an activity level (the slot still holds it,
\* the save having failed).
C14_Witness ==
  /\ calc = "tdee" /\ storage.kind = "object"
  /\ storage.rec.weight = Undef /\ storage.rec.units = UndefStr
  /\ storage.rec.gender = UndefStr
  /\ weightInput = Empty /\ units = "metric" /\ gender = "male"
  /\ heightCmInput = Num(1750) /\ heightFtInput = Empty
  /\ heightInInput = Num(70) /\ age = Num(300)
  /\ activityLevel = "moderate"

\* C16: the unit system is metric or imperial before and after every
\* step; a reload leaves imperial when the slot holds an object whose
\* unit is "imperial" and metric otherwise; a unit toggle leaves the other
\* of the two.
C16_UnitSystem ==
  [][/\ units \in {"metric", "imperial"}
     /\ units' \in {"metric", "imperial"}
     /\ Remount =>
          units' = (IF storage.kind = "object" /\ storage.rec.units = "imperial"
                    THEN "imperial" ELSE "metric")
     /\ ToggleUnits => units' # units]_vars

\* Restored from a record whose unit is "Imperial", then toggled.
C16_Witness ==
  /\ storage.kind = "object" /\ storage.rec.units = "Imperial"
  /\ heightInInput = Num(70) /\ toggles = 1 /\ units = "imperial"

\* After the step the form state is r and the result is the one the
\* re-render gives for r: recomputed when a dependency of the useMemo
\* changed, else hidden.
HeldAfter(r) ==
  /\ Raw' = r
  /\ Result' = (IF MemoDeps(r) # MemoDeps(Raw) THEN Recompute(r)
                ELSE [Result EXCEPT !.showResult = FALSE])

\* C15: while setItem throws, every event leaves the form state and the
\* result its handler and the re-render give, as with a write that
\* succeeds, and the slot as it was; this holds in every state, so also
\* for the events that follow a failed write.
C15_WriteFailureSwallowed ==
  [][~storageWritable =>
       /\ storage' = storage
       /\ \A value \in FaultTexts :
            /\ EditWeight(value) =>
                 HeldAfter([Raw EXCEPT
                              !.weight = handleInputChange(value, weightInput)])
            /\ EditHeightCm(value) =>
                 HeldAfter([Raw EXCEPT
                              !.heightCm = handleInputChange(value, heightCmInput)])
            /\ EditHeightFt(value) =>
                 HeldAfter([Raw EXCEPT
                              !.heightFt = handleInputChange(value, heightFtInput)])
            /\ EditHeightIn(value) =>
                 HeldAfter([Raw EXCEPT
                              !.heightIn = handleInputChange(value, heightInInput)])
            /\ EditAge(value) =>
                 HeldAfter([Raw EXCEPT !.age = handleInputChange(value, age)])
       /\ \A g \in Genders :
            SelectGender(g) => HeldAfter([Raw EXCEPT !.gender = g])
       /\ \A a \in ActivityLevels :
            SelectActivity(a) => HeldAfter([Raw EXCEPT !.activityLevel = a])
       /\ ToggleUnits => HeldAfter(toggleUnits(Raw))
       /\ Submit => (Raw' = Raw /\ Result' = Calculate(Raw))]_vars

\* With nothing ever written to the slot, a result is displayed for a
\* form filled in imperial units after a toggle.
C15_Witness ==
  /\ ~storageWritable /\ storage.rec = NoRecord
  /\ calc = "bmi" /\ units = "imperial" /\ toggles = 1
  /\ weightInput = Num(1543) /\ heightFtInput = Empty
  /\ heightInInput = Num(700)
  /\ showResult /\ bmi = Num(221)

\* C17: the inches field is absent or a number from 0 below 12.
C17_InchesBelowTwelve ==
  \/ heightInInput = Empty
  \/ IsNum(heightInInput) /\ heightInInput.v >= 0 /\ heightInInput.v < 120

\* Both imperial height components are absent or zero.
NoImperialHeight ==
  /\ heightFtInput \in {Empty, Num(0)}
  /\ heightInInput \in {Empty, Num(0)}

\* C18: an imperial to metric toggle taken with both imperial height
\* components absent or zero leaves the metric height field absent.
C18_ZeroHeightLeftAbsent ==
  [][(units = "imperial" /\ NoImperialHeight /\ ToggleUnits)
       => heightCmInput' = Empty]_vars

\* C19: a displayed result is the one the formula of the instance gives
\* for the current form state.
C19_NoStaleResult == Displayed => Result = Calculate(Raw)

\* After a toggle and an edit of the inches, the result of 154.3 lb with
\* 70 in is displayed.
C19_Witness ==
  /\ calc = "bmi" /\ units = "imperial" /\ toggles = 1
  /\ weightInput = Num(1543) /\ heightFtInput = Empty
  /\ heightInInput = Num(700) /\ heightCmInput = Empty
  /\ Displayed /\ bmi = Num(221) /\ bmiCategoryKey = "normalWeight"

====
